---- MODULE Spec2Model ----
(***************************************************************************)
(* A model of the JSON lexer of src/src/lib.rs (JsonLexer::tokenize and    *)
(* its three sub-scanners consume_string, consume_literal and              *)
(* consume_number).                                                        *)
(*                                                                         *)
(* The input stream is a finite sequence of read results: a byte (its      *)
(* ASCII code, 0..255) or IOERR, a failed read.  One step of the model is  *)
(* one iteration of one of the loops of the lexer.                         *)
(*                                                                         *)
(* An f64 is modelled as a sign and a magnitude; the magnitude is a fixed  *)
(* point number counted in units of 1/Scale, so that every value the       *)
(* bounded inputs can produce is represented exactly.  The rounding of     *)
(* binary floating point is not modelled.                                  *)
(***************************************************************************)
EXTENDS Integers, Sequences, FiniteSets, TLC

VARIABLES
    input,        \* the read results the stream will deliver, in order
    pos,          \* number of read results taken from the stream so far
    pc,           \* which loop is running: dispatch, string, literal, number, done
    tokens,       \* the Vec<JsonToken> built by tokenize
    result,       \* what tokenize returned (kind "none" while running)
    stdout,       \* the text printed for each token rendered, in order
    str,          \* consume_string: the String being built
    expected,     \* consume_literal: the keyword being matched
    idx,          \* consume_literal: index in expected of the next byte to match
    n,            \* consume_number: accumulator (magnitude, units of 1/Scale)
    is_negative,  \* consume_number
    is_fraction,  \* consume_number
    nfraction,    \* consume_number
    start,        \* position in input of the byte that made the dispatch loop
                  \* enter the running sub-scanner (0 when none is running)
    origins       \* for each token of tokens, the position in input of the
                  \* first byte of its lexical unit

vars == <<input, pos, pc, tokens, result, stdout, str, expected, idx,
          n, is_negative, is_fraction, nfraction, start, origins>>

scannerVars == <<str, expected, idx, n, is_negative, is_fraction, nfraction,
                 start>>

----------------------------------------------------------------------------
(* Bounds of the model                                                     *)

MaxDispatchLen == 3
MaxNumberLen == 4
MaxStringLen == 4
MaxLiteralLen == 5
MaxRoundTripLen == 2
\* stand-in for f64::MAX (about 1.8e308), in whole units
F64Max == 1500

----------------------------------------------------------------------------
(* Bytes                                                                   *)

IOERR == -1          \* a read that returned Err(e)
EOF == -2            \* next()/peek() returned None

TAB == 9
LF == 10
CR == 13
SPACE == 32
QUOTE == 34
HASH == 35
PLUS == 43
COMMA == 44
MINUS == 45
POINT == 46
ZERO == 48
COLON == 58
BACKSLASH == 92
LBRACE == 123
RBRACE == 125

RECURSIVE Pow10(_)
Pow10(k) == IF k = 0 THEN 1 ELSE 10 * Pow10(k - 1)

\* number of fractional digits the fixed point magnitude can hold
FracDigits == MaxNumberLen
Scale == Pow10(FracDigits)

IsWhitespace(b) == b \in {SPACE, TAB, LF, CR}
IsDigit(b) == b \in ZERO..(ZERO + 9)
DigitValue(b) == b - ZERO

TrueBytes == <<116, 114, 117, 101>>
FalseBytes == <<102, 97, 108, 115, 101>>

(* The stream: the read result at position i (1-based), EOF past the end.  *)
Item(i) == IF i <= Len(input) THEN input[i] ELSE EOF
NextItem == Item(pos + 1)
Peek == Item(pos + 1)

----------------------------------------------------------------------------
(* Tokens and results                                                      *)

TokObjectStart == [type |-> "ObjectStart"]
TokObjectEnd == [type |-> "ObjectEnd"]
TokColon == [type |-> "Colon"]
TokComma == [type |-> "Comma"]
TokInvalid == [type |-> "Invalid"]
TokString(s) == [type |-> "String", text |-> s]
TokBoolean(b) == [type |-> "Boolean", value |-> b]
TokNumber(neg, mag) == [type |-> "Number", neg |-> neg, mag |-> mag]

Running == [kind |-> "none", err |-> "", arg |-> 0]
Ok == [kind |-> "Ok", err |-> "", arg |-> 0]
Panic == [kind |-> "panic", err |-> "", arg |-> 0]
Err(e, a) == [kind |-> "Err", err |-> e, arg |-> a]

----------------------------------------------------------------------------
(* Rendering: the text tokenize prints for its tokens                      *)

\* the decimal digits of a natural number
RECURSIVE Digits(_)
Digits(k) == IF k < 10 THEN <<ZERO + k>> ELSE Digits(k \div 10) \o <<ZERO + (k % 10)>>

\* the digits of the fraction f / sc (f < sc), without trailing zeros
RECURSIVE FracText(_, _)
FracText(f, sc) ==
    IF f = 0 THEN <<>>
    ELSE LET d == (f * 10) \div sc
         IN  <<ZERO + d>> \o FracText(f * 10 - d * sc, sc)

\* Display of an f64: no exponent, no fraction for an integral value
FormatF64(neg, mag) ==
    (IF neg THEN <<MINUS>> ELSE <<>>)
        \o Digits(mag \div Scale)
        \o (IF mag % Scale = 0 THEN <<>> ELSE <<POINT>> \o FracText(mag % Scale, Scale))

\* Debug of a token without payload: the name of the variant
DebugName(t) ==
    CASE t.type = "ObjectStart" -> <<79, 98, 106, 101, 99, 116, 83, 116, 97, 114, 116>>
      [] t.type = "ObjectEnd" -> <<79, 98, 106, 101, 99, 116, 69, 110, 100>>
      [] t.type = "Colon" -> <<67, 111, 108, 111, 110>>
      [] t.type = "Comma" -> <<67, 111, 109, 109, 97>>
      [] t.type = "Invalid" -> <<73, 110, 118, 97, 108, 105, 100>>

\* a canonical rendering: every token as the text it was lexed from
RenderMut(t) ==
    (CASE t.type = "String" -> <<QUOTE>> \o t.text \o <<QUOTE>>
       [] t.type = "Number" -> FormatF64(t.neg, t.mag)
       [] t.type = "Boolean" -> (IF t.value THEN TrueBytes ELSE FalseBytes)
       [] t.type = "ObjectStart" -> <<LBRACE>>
       [] t.type = "ObjectEnd" -> <<RBRACE>>
       [] t.type = "Colon" -> <<COLON>>
       [] t.type = "Comma" -> <<COMMA>>
       [] OTHER -> <<HASH>>) \o <<SPACE>>

\* the rendering of one token by the for_each closure: "[", the body, "], "
Render(t) ==
    <<91>>
        \o (CASE t.type = "String" -> <<83, 116, 114, 105, 110, 103, 58, 32, 34>> \o t.text \o <<QUOTE>>
              [] t.type = "Number" -> <<78, 117, 109, 98, 101, 114, 58, 32>> \o FormatF64(t.neg, t.mag)
              [] t.type = "Boolean"
                   -> <<66, 111, 111, 108, 101, 97, 110, 58, 32>> \o (IF t.value THEN TrueBytes ELSE FalseBytes)
              [] OTHER -> DebugName(t))
        \o <<93, COMMA, SPACE>>

RECURSIVE Flatten(_)
Flatten(ss) == IF ss = <<>> THEN <<>> ELSE Head(ss) \o Flatten(Tail(ss))

\* everything tokenize prints for the tokens ts: the renderings and println!()
RenderAll(ts) == Flatten([i \in 1..Len(ts) |-> Render(ts[i])]) \o <<LF>>

----------------------------------------------------------------------------
(* Inputs                                                                  *)

SeqsUpTo(A, k) == UNION {[1..m -> A] : m \in 0..k}

\* bytes of every class of the dispatch match, and a failed read
DispatchAlphabet == {SPACE, TAB, LF, CR, LBRACE, RBRACE, COLON, COMMA, HASH,
                     ZERO + 1, QUOTE, 116, IOERR}
\* 0 1 9 . + - e and a failed read
NumberAlphabet == {ZERO, ZERO + 1, ZERO + 9, POINT, PLUS, MINUS, 101, IOERR}
\* " \ a b n u and a failed read
StringAlphabet == {QUOTE, BACKSLASH, 97, 98, 110, 117, IOERR}
TrueAlphabet == {116, 114, 117, 101}
FalseAlphabet == {102, 97, 108, 115, 101}
\* the bytes that may follow a backslash without an error
EscapeBytes == {QUOTE, BACKSLASH, 98, 102, 110, 114, 116}

DispatchInputs == SeqsUpTo(DispatchAlphabet, MaxDispatchLen)
NumberInputs == SeqsUpTo(NumberAlphabet, MaxNumberLen)
StringInputs == {<<QUOTE>> \o s : s \in SeqsUpTo(StringAlphabet, MaxStringLen)}
LiteralInputs == SeqsUpTo(TrueAlphabet, MaxLiteralLen)
                     \cup SeqsUpTo(FalseAlphabet, MaxLiteralLen)
\* "\x"  for every accepted escape x, alone and between two plain bytes
EscapeInputs == {<<QUOTE, BACKSLASH, x, QUOTE>> : x \in EscapeBytes}
                    \cup {<<QUOTE, 97, BACKSLASH, x, 98, QUOTE>> : x \in EscapeBytes}

\* {"a":1,"b":2}
InObject == <<LBRACE, QUOTE, 97, QUOTE, COLON, 49, COMMA,
              QUOTE, 98, QUOTE, COLON, 50, RBRACE>>
In1e5 == <<49, 101, 53>>
In123 == <<49, 50, 51>>
InPlus5 == <<PLUS, 53>>
InMinus12p5 == <<MINUS, 49, 50, POINT, 53>>
In1p2p3 == <<49, POINT, 50, POINT, 51>>
InAbc == <<QUOTE, 97, 98, 99, QUOTE>>
InTrue == TrueBytes
InFalse == FalseBytes
InTru == <<116, 114, 117>>
ExampleInputs == {InObject, In1e5, In123, InPlus5, InMinus12p5, In1p2p3,
                  InAbc, InTrue, InFalse, InTru}

\* the printed text of every short sequence of punctuation, boolean and
\* integral number tokens
RoundTripTokens == {TokObjectStart, TokObjectEnd, TokColon, TokComma,
                    TokBoolean(TRUE), TokBoolean(FALSE),
                    TokNumber(FALSE, 12 * Scale), TokNumber(TRUE, 7 * Scale)}
RoundTripSeqs == SeqsUpTo(RoundTripTokens, MaxRoundTripLen)
RoundTripInputs == {RenderAll(ts) : ts \in RoundTripSeqs}

Inputs == DispatchInputs \cup NumberInputs \cup StringInputs
              \cup LiteralInputs \cup EscapeInputs \cup ExampleInputs
              \cup RoundTripInputs

----------------------------------------------------------------------------
(* tokenize: construction and the dispatch loop                            *)

\* the locals of the sub-scanners, before a sub-scanner is entered
ScannerIdle ==
    /\ str = <<>>
    /\ expected = <<>>
    /\ idx = 0
    /\ n = 0
    /\ is_negative = FALSE
    /\ is_fraction = FALSE
    /\ nfraction = 1
    /\ start = 0

Init ==
    /\ input \in Inputs
    /\ pos = 0
    /\ pc = "dispatch"
    /\ tokens = <<>>
    /\ origins = <<>>
    /\ result = Running
    /\ stdout = <<>>
    /\ ScannerIdle

\* the locals of a sub-scanner go out of scope when it returns
ResetScanner ==
    /\ str' = <<>>
    /\ expected' = <<>>
    /\ idx' = 0
    /\ n' = 0
    /\ is_negative' = FALSE
    /\ is_fraction' = FALSE
    /\ nfraction' = 1
    /\ start' = 0

\* the first byte of the lexical unit of the token being pushed: the byte
\* that entered the sub-scanner, or the byte the dispatch loop just took
UnitStart == IF start = 0 THEN pos + 1 ELSE start

\* a push at the front of the vector
PushMut(t) ==
    /\ tokens' = <<t>> \o tokens
    /\ origins' = <<UnitStart>> \o origins
    /\ pc' = "dispatch"
    /\ ResetScanner
    /\ UNCHANGED <<input, result, stdout>>

\* tokens.push(t) in the dispatch loop; the sub-scanner, if any, has returned
Push(t) ==
    /\ tokens' = Append(tokens, t)
    /\ origins' = Append(origins, UnitStart)
    /\ pc' = "dispatch"
    /\ ResetScanner
    /\ UNCHANGED <<input, result, stdout>>

\* a return of an error that still renders the tokens gathered so far
FailMut(e) ==
    /\ result' = e
    /\ pc' = "done"
    /\ ResetScanner
    /\ stdout' = [i \in 1..Len(tokens) |-> Render(tokens[i])]
    /\ UNCHANGED <<input, origins, tokens>>

\* `?` / return Err(e): tokenize returns e, nothing is rendered
Fail(e) ==
    /\ result' = e
    /\ pc' = "done"
    /\ ResetScanner
    /\ UNCHANGED <<input, origins, tokens, stdout>>

\* byte_iter.next() returned None: render every token, return Ok(())
DispatchEnd ==
    /\ pc = "dispatch"
    /\ NextItem = EOF
    /\ stdout' = [i \in 1..Len(tokens) |-> Render(tokens[i])]
    /\ result' = Ok
    /\ pc' = "done"
    /\ UNCHANGED <<input, origins, pos, tokens, scannerVars>>

DispatchIoErr ==
    /\ pc = "dispatch"
    /\ NextItem = IOERR
    /\ pos' = pos + 1
    /\ Fail(Err("IoError", 0))

\* a dispatch loop that makes a token of a whitespace byte
DispatchWhitespaceMut ==
    /\ pc = "dispatch"
    /\ IsWhitespace(NextItem)
    /\ pos' = pos + 1
    /\ Push(TokInvalid)


DispatchWhitespace ==
    /\ pc = "dispatch"
    /\ IsWhitespace(NextItem)
    /\ pos' = pos + 1
    /\ UNCHANGED <<input, origins, pc, tokens, result, stdout, scannerVars>>

PunctToken(b) ==
    CASE b = LBRACE -> TokObjectStart
      [] b = RBRACE -> TokObjectEnd
      [] b = COLON -> TokColon
      [] b = COMMA -> TokComma

DispatchPunct ==
    /\ pc = "dispatch"
    /\ NextItem \in {LBRACE, RBRACE, COLON, COMMA}
    /\ pos' = pos + 1
    /\ Push(PunctToken(NextItem))

\* consume_literal: the keyword selected by the first byte
Expected(byte) == IF byte = 102 THEN FalseBytes ELSE TrueBytes

DispatchLiteral ==
    /\ pc = "dispatch"
    /\ NextItem \in {102, 116}
    /\ pos' = pos + 1
    /\ start' = pos + 1
    /\ pc' = "literal"
    /\ expected' = Expected(NextItem)
    /\ idx' = 2
    /\ UNCHANGED <<input, origins, tokens, result, stdout, str,
                   n, is_negative, is_fraction, nfraction>>

\* consume_number: the match on the first byte
DispatchNumber ==
    /\ pc = "dispatch"
    /\ IsDigit(NextItem) \/ NextItem \in {PLUS, MINUS}
    /\ pos' = pos + 1
    /\ start' = pos + 1
    /\ pc' = "number"
    /\ is_negative' = (NextItem = MINUS)
    /\ n' = IF IsDigit(NextItem) THEN DigitValue(NextItem) * Scale ELSE 0
    /\ is_fraction' = FALSE
    /\ nfraction' = 1
    /\ UNCHANGED <<input, origins, tokens, result, stdout, str, expected, idx>>

DispatchString ==
    /\ pc = "dispatch"
    /\ NextItem = QUOTE
    /\ pos' = pos + 1
    /\ start' = pos + 1
    /\ pc' = "string"
    /\ str' = <<>>
    /\ UNCHANGED <<input, origins, tokens, result, stdout, expected, idx,
                   n, is_negative, is_fraction, nfraction>>

\* the bytes the match of the dispatch loop names
Classified(b) ==
    \/ IsWhitespace(b)
    \/ b \in {LBRACE, RBRACE, COLON, COMMA, 102, 116, PLUS, MINUS, QUOTE}
    \/ IsDigit(b)

\* a dispatch loop for which an unknown byte is fatal
DispatchInvalidMut ==
    /\ pc = "dispatch"
    /\ NextItem \in 0..255
    /\ ~Classified(NextItem)
    /\ pos' = pos + 1
    /\ Fail(Err("InvalidCharacter", NextItem))


DispatchInvalid ==
    /\ pc = "dispatch"
    /\ NextItem \in 0..255
    /\ ~Classified(NextItem)
    /\ pos' = pos + 1
    /\ Push(TokInvalid)

----------------------------------------------------------------------------
(* consume_string                                                          *)

\* the character pushed for an accepted escape
EscapeChar(escaped) ==
    CASE escaped = QUOTE -> QUOTE
      [] escaped = BACKSLASH -> BACKSLASH
      [] escaped = 98 -> 8
      [] escaped = 102 -> 12
      [] escaped = 110 -> 110
      [] escaped = 114 -> 114
      [] escaped = 116 -> 116

\* str.push(byte as char) after the match, reached by every arm that
\* does not return
PushByte(s, byte) == Append(s, byte)

\* a scan for which a string without a closing quote is an error
StringEndMut ==
    /\ pc = "string"
    /\ NextItem = EOF
    /\ UNCHANGED pos
    /\ Fail(Err("UnexpectedEndOfInput", 0))

\* next() returned None: the scan returns what was accumulated
StringEnd ==
    /\ pc = "string"
    /\ NextItem = EOF
    /\ UNCHANGED pos
    /\ Push(TokString(str))

StringIoErr ==
    /\ pc = "string"
    /\ NextItem = IOERR
    /\ pos' = pos + 1
    /\ Fail(Err("IoError", 0))

StringQuote ==
    /\ pc = "string"
    /\ NextItem = QUOTE
    /\ pos' = pos + 1
    /\ Push(TokString(str))

StringEscape ==
    /\ pc = "string"
    /\ NextItem = BACKSLASH
    /\ Item(pos + 2) \in EscapeBytes
    /\ pos' = pos + 2
    /\ str' = PushByte(Append(str, EscapeChar(Item(pos + 2))), NextItem)
    /\ UNCHANGED <<input, origins, pc, tokens, result, stdout, start,
                   expected, idx,
                   n, is_negative, is_fraction, nfraction>>

\* a scan that reports \u as an error value
StringEscapeUnicodeMut ==
    /\ pc = "string"
    /\ NextItem = BACKSLASH
    /\ Item(pos + 2) = 117
    /\ pos' = pos + 2
    /\ Fail(Err("InvalidEscapeSequence", 117))

\* todo!(): the process panics
StringEscapeUnicode ==
    /\ pc = "string"
    /\ NextItem = BACKSLASH
    /\ Item(pos + 2) = 117
    /\ pos' = pos + 2
    /\ Fail(Panic)

\* a scan that names the backslash, not the escaped byte, in the error
StringEscapeInvalidMut ==
    /\ pc = "string"
    /\ NextItem = BACKSLASH
    /\ Item(pos + 2) \in (0..255) \ (EscapeBytes \cup {117})
    /\ pos' = pos + 2
    /\ Fail(Err("InvalidEscapeSequence", NextItem))


StringEscapeInvalid ==
    /\ pc = "string"
    /\ NextItem = BACKSLASH
    /\ Item(pos + 2) \in (0..255) \ (EscapeBytes \cup {117})
    /\ pos' = pos + 2
    /\ Fail(Err("InvalidEscapeSequence", Item(pos + 2)))

StringEscapeEof ==
    /\ pc = "string"
    /\ NextItem = BACKSLASH
    /\ Item(pos + 2) = EOF
    /\ pos' = pos + 1
    /\ Fail(Err("UnexpectedEndOfInput", 0))

StringEscapeIoErr ==
    /\ pc = "string"
    /\ NextItem = BACKSLASH
    /\ Item(pos + 2) = IOERR
    /\ pos' = pos + 2
    /\ Fail(Err("IoError", 0))

\* a scan that drops the plain bytes of a string
StringPlainMut ==
    /\ pc = "string"
    /\ NextItem \in (0..255) \ {QUOTE, BACKSLASH}
    /\ pos' = pos + 1
    /\ UNCHANGED <<input, origins, pc, tokens, result, stdout, scannerVars>>


StringPlain ==
    /\ pc = "string"
    /\ NextItem \in (0..255) \ {QUOTE, BACKSLASH}
    /\ pos' = pos + 1
    /\ str' = PushByte(str, NextItem)
    /\ UNCHANGED <<input, origins, pc, tokens, result, stdout, start,
                   expected, idx,
                   n, is_negative, is_fraction, nfraction>>

----------------------------------------------------------------------------
(* consume_literal                                                         *)

LiteralMatch ==
    /\ pc = "literal"
    /\ idx <= Len(expected)
    /\ NextItem = expected[idx]
    /\ pos' = pos + 1
    /\ idx' = idx + 1
    /\ UNCHANGED <<input, origins, pc, tokens, result, stdout, start, str,
                   expected,
                   n, is_negative, is_fraction, nfraction>>

LiteralMismatch ==
    /\ pc = "literal"
    /\ idx <= Len(expected)
    /\ NextItem \in 0..255
    /\ NextItem # expected[idx]
    /\ pos' = pos + 1
    /\ Fail(Err("InvalidCharacter", NextItem))

LiteralIoErr ==
    /\ pc = "literal"
    /\ idx <= Len(expected)
    /\ NextItem = IOERR
    /\ pos' = pos + 1
    /\ Fail(Err("IoError", 0))

\* a matcher that accepts a keyword cut short by the end of the stream
LiteralEofMut ==
    /\ pc = "literal"
    /\ idx <= Len(expected)
    /\ NextItem = EOF
    /\ UNCHANGED pos
    /\ Push(TokBoolean(expected[1] = 116))


LiteralEof ==
    /\ pc = "literal"
    /\ idx <= Len(expected)
    /\ NextItem = EOF
    /\ UNCHANGED pos
    /\ Fail(Err("UnexpectedEndOfInput", 0))

\* the for loop is over: every expected byte was matched
LiteralReturn ==
    /\ pc = "literal"
    /\ idx > Len(expected)
    /\ UNCHANGED pos
    /\ Push(TokBoolean(expected[1] = 116))

----------------------------------------------------------------------------
(* consume_number                                                          *)

\* the guard after an integer digit: n > f64::MAX / 10.0
Overflows(m) == m * 10 > F64Max * Scale

\* digit / 10_f64.powi(nfraction)
FracTerm(digit, k) == (digit * Scale) \div Pow10(k)

NumberIntDigit ==
    /\ pc = "number"
    /\ IsDigit(Peek)
    /\ ~is_fraction
    /\ pos' = pos + 1
    /\ LET m == n * 10 + DigitValue(Peek) * Scale
       IN  IF Overflows(m)
           THEN Fail(Err("InvalidNumber", m))
           ELSE /\ n' = m
                /\ UNCHANGED <<input, origins, pc, tokens, result, stdout,
                               start, str,
                               expected, idx, is_negative, is_fraction,
                               nfraction>>

NumberFracDigit ==
    /\ pc = "number"
    /\ IsDigit(Peek)
    /\ is_fraction
    /\ pos' = pos + 1
    /\ n' = n + FracTerm(DigitValue(Peek), nfraction)
    /\ nfraction' = nfraction + 1
    /\ UNCHANGED <<input, origins, pc, tokens, result, stdout, start, str,
                   expected, idx,
                   is_negative, is_fraction>>

\* a scan that takes every decimal point
NumberPointMut ==
    /\ pc = "number"
    /\ Peek = POINT
    /\ pos' = pos + 1
    /\ is_fraction' = TRUE
    /\ UNCHANGED <<input, origins, pc, tokens, result, stdout, start, str,
                   expected,
                   idx, n, is_negative, nfraction>>


NumberPoint ==
    /\ pc = "number"
    /\ Peek = POINT
    /\ IF is_fraction
       THEN /\ UNCHANGED pos
            /\ Fail(Err("InvalidNumber", n))
       ELSE /\ pos' = pos + 1
            /\ is_fraction' = TRUE
            /\ UNCHANGED <<input, origins, pc, tokens, result, stdout, start,
                           str, expected,
                           idx, n, is_negative, nfraction>>

\* a scan that rejects a run without a digit
NumberReturnStrict ==
    /\ pc = "number"
    /\ ~IsDigit(Peek)
    /\ Peek # POINT
    /\ UNCHANGED pos
    /\ IF \A j \in start..pos : ~IsDigit(input[j])
       THEN Fail(Err("InvalidNumber", 0))
       ELSE Push(TokNumber(is_negative, n))

\* a scan whose catch-all arm neither takes the byte nor leaves the loop
NumberReturnLoop ==
    /\ pc = "number"
    /\ ~IsDigit(Peek)
    /\ Peek # POINT
    /\ IF Peek \in 0..255
       THEN UNCHANGED vars
       ELSE UNCHANGED pos /\ Push(TokNumber(is_negative, n))

\* a scan that drops a failed read met by its lookahead
NumberReturnSwallow ==
    /\ pc = "number"
    /\ ~IsDigit(Peek)
    /\ Peek # POINT
    /\ pos' = IF Peek = IOERR THEN pos + 1 ELSE pos
    /\ Push(TokNumber(is_negative, n))

\* a scan that takes the byte that ends the run from the stream
NumberReturnMut ==
    /\ pc = "number"
    /\ ~IsDigit(Peek)
    /\ Peek # POINT
    /\ pos' = IF Peek \in 0..255 THEN pos + 1 ELSE pos
    /\ Push(TokNumber(is_negative, n))

\* the loop ends without consuming: break, or peek() is None or Some(Err)
NumberReturn ==
    /\ pc = "number"
    /\ ~IsDigit(Peek)
    /\ Peek # POINT
    /\ UNCHANGED pos
    /\ Push(TokNumber(is_negative, n))

----------------------------------------------------------------------------

Next ==
    \/ DispatchEnd
    \/ DispatchIoErr
    \/ DispatchWhitespace
    \/ DispatchPunct
    \/ DispatchLiteral
    \/ DispatchNumber
    \/ DispatchString
    \/ DispatchInvalid
    \/ StringEnd
    \/ StringIoErr
    \/ StringQuote
    \/ StringEscape
    \/ StringEscapeUnicode
    \/ StringEscapeInvalid
    \/ StringEscapeEof
    \/ StringEscapeIoErr
    \/ StringPlain
    \/ LiteralMatch
    \/ LiteralMismatch
    \/ LiteralIoErr
    \/ LiteralEof
    \/ LiteralReturn
    \/ NumberIntDigit
    \/ NumberFracDigit
    \/ NumberPoint
    \/ NumberReturn

Spec == Init /\ [][Next]_vars

\* reads do not block: a pass that can take a step takes one
FairSpec == Spec /\ WF_vars(Next)

TypeOK ==
    /\ pos \in 0..Len(input)
    /\ pc \in {"dispatch", "string", "literal", "number", "done"}
    /\ result.kind \in {"none", "Ok", "Err", "panic"}
    /\ (pc = "done") <=> (result # Running)

----------------------------------------------------------------------------
(* Claims                                                                  *)

Last(s) == s[Len(s)]
Done == pc = "done"
\* a Number token of a value given as whole units and units of 1/Scale
Num(neg, whole, frac) == TokNumber(neg, whole * Scale + frac)

(* C1: consume_number stops at the first byte that is neither a digit nor  *)
(* a decimal point and leaves that byte in the stream: every step of the   *)
(* scan that stays in the scan takes one digit or point, the step that     *)
(* ends the run takes nothing and returns to the dispatch loop, which      *)
(* reads the ending byte next.  {"a":1,"b":2} gives the nine tokens of the *)
(* spec and 1e5 gives Number(1), Invalid, Number(5).                       *)
C1_StopStep ==
    (pc = "number" /\ pc' = "dispatch")
        => /\ pos' = pos
           /\ ~IsDigit(Item(pos + 1))
           /\ Item(pos + 1) # POINT
           /\ tokens' = Append(tokens, TokNumber(is_negative, n))
C1_RunStep ==
    (pc = "number" /\ pc' = "number")
        => /\ pos' = pos + 1
           /\ IsDigit(Item(pos')) \/ Item(pos') = POINT
C1_Examples ==
    /\ (Done /\ input = InObject)
           => /\ result = Ok
              /\ tokens = <<TokObjectStart, TokString(<<97>>), TokColon,
                            Num(FALSE, 1, 0), TokComma, TokString(<<98>>),
                            TokColon, Num(FALSE, 2, 0), TokObjectEnd>>
    /\ (Done /\ input = In1e5)
           => /\ result = Ok
              /\ tokens = <<Num(FALSE, 1, 0), TokInvalid, Num(FALSE, 5, 0)>>
\* the byte that ended a number run got its own token
C1_EndByteOwnToken ==
    (Done /\ result = Ok /\ Len(input) = 2 /\ IsDigit(input[1])
         /\ input[2] \in {101, COMMA, MINUS, PLUS})
        => /\ Len(tokens) = 2
           /\ tokens[1] = Num(FALSE, DigitValue(input[1]), 0)
           /\ tokens[2] = CASE input[2] = 101 -> TokInvalid
                            [] input[2] = COMMA -> TokComma
                            [] input[2] = MINUS -> Num(TRUE, 0, 0)
                            [] input[2] = PLUS -> Num(FALSE, 0, 0)
C1_NumberStopsWithoutConsuming ==
    /\ [][C1_StopStep /\ C1_RunStep]_vars
    /\ [](C1_Examples /\ C1_EndByteOwnToken)

\* a number was just returned and the byte that ended it, an e, is still
\* in the stream, and later became an Invalid token
C1_Witness ==
    /\ Done
    /\ input = In1e5
    /\ tokens = <<Num(FALSE, 1, 0), TokInvalid, Num(FALSE, 5, 0)>>

(* C3: at the dispatch loop a byte that is not whitespace, { } : , f t, a  *)
(* digit, + - or " gives exactly one Invalid token and no error; the       *)
(* lexer is then in the dispatch loop at the next byte with no scanner     *)
(* running, the state in which lexing starts.                              *)
C3_Named == {SPACE, TAB, LF, CR, LBRACE, RBRACE, COLON, COMMA, 102, 116,
             PLUS, MINUS, QUOTE} \cup (48..57)
C3_StrayAtDispatch == pc = "dispatch" /\ NextItem \in (0..255) \ C3_Named
C3_StrayByteIsInvalidToken ==
    [][C3_StrayAtDispatch
          => /\ tokens' = Append(tokens, TokInvalid)
             /\ pos' = pos + 1
             /\ pc' = "dispatch"
             /\ result' = Running
             /\ stdout' = <<>>
             /\ ScannerIdle']_vars

\* a # was made an Invalid token and lexing went on to a later token
C3_Witness ==
    /\ Done
    /\ result = Ok
    /\ Len(input) = 3
    /\ input[1] = HASH
    /\ tokens = <<TokInvalid, TokObjectStart, TokObjectEnd>>

(* C4: when tokenize returns an error nothing was rendered, whatever the   *)
(* number of tokens gathered; tokens are rendered only when the whole      *)
(* stream was read without error, and then all of them are.                *)
C4_NoPartialOutput ==
    /\ result.kind = "Err" => pc = "done"
    /\ (result.kind \in {"Err", "none"}) => stdout = <<>>
    /\ stdout # <<>> => (result = Ok /\ pos = Len(input))
    /\ result = Ok => (Len(stdout) = Len(tokens) /\ pos = Len(input))

\* an error after two tokens had been gathered
C4_Witness ==
    /\ Done
    /\ result.kind = "Err"
    /\ Len(tokens) >= 2
    /\ stdout = <<>>

(* C5: after a leading t (f) consume_literal gives Boolean(true) (false)   *)
(* iff the next bytes are exactly rue (alse); the first byte that differs  *)
(* gives InvalidCharacter of that byte, the end of the stream before the   *)
(* keyword is complete gives UnexpectedEndOfInput, and no Boolean token is *)
(* pushed for a part of a keyword.                                         *)
C5_Keyword(b) == IF b = 116 THEN <<116, 114, 117, 101>>
                            ELSE <<102, 97, 108, 115, 101>>
\* the first position of the input that does not continue the keyword
C5_FirstBad(kw) ==
    LET bad == {j \in 2..Len(kw) : Item(j) # kw[j]}
    IN  IF bad = {} THEN 0
        ELSE CHOOSE j \in bad : \A k \in bad : j <= k
\* the input begins with t or f: the scan that starts at its first byte
C5_AtStart ==
    (input # <<>> /\ input[1] \in {116, 102})
        => LET kw == C5_Keyword(input[1])
               bad == C5_FirstBad(kw)
           IN  /\ tokens # <<>>
                     => (bad = 0 /\ tokens[1] = TokBoolean(input[1] = 116))
               /\ (Done /\ bad = 0) => tokens # <<>>
               /\ (Done /\ bad # 0)
                     => /\ tokens = <<>>
                        /\ pos = IF Item(bad) = EOF THEN bad - 1 ELSE bad
                        /\ result = CASE Item(bad) = EOF
                                           -> Err("UnexpectedEndOfInput", 0)
                                      [] Item(bad) = IOERR
                                           -> Err("IoError", 0)
                                      [] OTHER
                                           -> Err("InvalidCharacter", Item(bad))
\* a scan that starts anywhere: a token is pushed only for a whole keyword
C5_PushStep ==
    (pc = "literal" /\ tokens' # tokens)
        => \E kw \in {C5_Keyword(116), C5_Keyword(102)} :
              /\ pos >= Len(kw)
              /\ \A j \in 1..Len(kw) : input[pos - Len(kw) + j] = kw[j]
              /\ tokens' = Append(tokens, TokBoolean(kw[1] = 116))
C5_Examples ==
    /\ (Done /\ input = InTrue) => (result = Ok /\ tokens = <<TokBoolean(TRUE)>>)
    /\ (Done /\ input = InFalse) => (result = Ok /\ tokens = <<TokBoolean(FALSE)>>)
    /\ (Done /\ input = InTru)
           => (result = Err("UnexpectedEndOfInput", 0) /\ tokens = <<>>)
C5_LiteralMatcher ==
    /\ [](C5_AtStart /\ C5_Examples)
    /\ [][C5_PushStep]_vars

\* tru and then the end of the stream
C5_Witness ==
    /\ Done
    /\ input = InTru
    /\ result = Err("UnexpectedEndOfInput", 0)

(* C2: every escape pair (a backslash and a byte of " \ b f n r t) adds    *)
(* exactly its one replacement character to the decoded text, so that a    *)
(* string of k escape pairs and m plain bytes decodes to k + m characters. *)
C2_Replacement(x) ==
    CASE x = QUOTE -> QUOTE
      [] x = BACKSLASH -> BACKSLASH
      [] x = 98 -> 8
      [] x = 102 -> 12
      [] x = 110 -> 110
      [] x = 114 -> 114
      [] x = 116 -> 116
\* the text the claim gives to the string whose first byte is s[j]
RECURSIVE C2_Decoded(_, _)
C2_Decoded(s, j) ==
    IF j > Len(s) \/ s[j] = QUOTE THEN <<>>
    ELSE IF s[j] = BACKSLASH
         THEN <<C2_Replacement(s[j + 1])>> \o C2_Decoded(s, j + 2)
         ELSE <<s[j]>> \o C2_Decoded(s, j + 1)
C2_EscapeAddsOneChar ==
    (input # <<>> /\ input[1] = QUOTE /\ tokens # <<>>)
        => tokens[1] = TokString(C2_Decoded(input, 2))

(* C6: consume_string ends the string at the first quote that is not the   *)
(* second byte of an escape pair, pushes exactly one String token, and     *)
(* for a literal without a backslash the text is the bytes between the     *)
(* two quotes, in order; "abc" gives one String token of text abc.         *)
\* the position of the first quote from j on that no backslash escapes
RECURSIVE C6_Close(_, _)
C6_Close(s, j) ==
    IF j > Len(s) THEN 0
    ELSE IF s[j] = QUOTE THEN j
    ELSE IF s[j] = BACKSLASH THEN C6_Close(s, j + 2)
    ELSE C6_Close(s, j + 1)
C6_Plain(a, b) == \A j \in a..b : input[j] \in (0..255) \ {BACKSLASH, QUOTE}
C6_CloseStep ==
    (pc = "string" /\ NextItem = QUOTE)
        => /\ pos' = C6_Close(input, start + 1)
           /\ Len(tokens') = Len(tokens) + 1
           /\ Last(tokens').type = "String"
           /\ C6_Plain(start + 1, pos)
                 => Last(tokens').text = SubSeq(input, start + 1, pos)
           /\ pc' = "dispatch"
C6_InsideStep ==
    (pc = "string" /\ pc' = "string")
        => /\ tokens' = tokens
           /\ pos' < C6_Close(input, start + 1) \/ C6_Close(input, start + 1) = 0
C6_Final ==
    (Done /\ input # <<>> /\ input[1] = QUOTE /\ C6_Close(input, 2) # 0
          /\ C6_Plain(2, C6_Close(input, 2) - 1))
        => /\ tokens # <<>>
           /\ tokens[1] = TokString(SubSeq(input, 2, C6_Close(input, 2) - 1))
C6_Example ==
    (Done /\ input = InAbc)
        => (result = Ok /\ tokens = <<TokString(<<97, 98, 99>>)>>)
C6_StringEndsAtUnescapedQuote ==
    /\ [][C6_CloseStep /\ C6_InsideStep]_vars
    /\ [](C6_Final /\ C6_Example)

\* "\"a" : the quote after the backslash did not end the string, the
\* last one did, and one token was pushed
C6_Witness ==
    /\ Done
    /\ input = <<QUOTE, BACKSLASH, QUOTE, 97, QUOTE>>
    /\ result = Ok
    /\ Len(tokens) = 1
    /\ tokens[1].type = "String"

\* the value of the digits s[1..k], in whole units
RECURSIVE DecimalInt(_, _)
DecimalInt(s, k) ==
    IF k = 0 THEN 0 ELSE 10 * DecimalInt(s, k - 1) + (s[k] - 48)
\* the value of the fractional digits s[p+1..p+k], in units of 1/Scale
RECURSIVE DecimalFrac(_, _, _)
DecimalFrac(s, p, k) ==
    IF k = 0 THEN 0
    ELSE DecimalFrac(s, p, k - 1) + ((s[p + k] - 48) * Scale) \div Pow10(k)
\* the position of the first decimal point of s, Len(s) + 1 if it has none
PointAt(s) ==
    IF \E j \in 1..Len(s) : s[j] = POINT
    THEN CHOOSE j \in 1..Len(s) : s[j] = POINT /\ \A k \in 1..(j - 1) : s[k] # POINT
    ELSE Len(s) + 1
\* the decimal value of digits [. digits], in units of 1/Scale
DecimalValue(s) ==
    LET p == PointAt(s)
    IN  DecimalInt(s, p - 1) * Scale
            + (IF p < Len(s) THEN DecimalFrac(s, p, Len(s) - p) ELSE 0)
\* s without its sign
Unsigned(s) == IF s # <<>> /\ s[1] \in {PLUS, MINUS} THEN Tail(s) ELSE s

(* C7: consume_number takes at most one decimal point in a run: at a       *)
(* second one the scan fails with InvalidNumber of the value accumulated   *)
(* so far and tokenize returns that error (1.2.3 fails at the second       *)
(* point); a run with no or one point never fails for this reason.         *)
C7_Points(a, b) == Cardinality({j \in a..b : input[j] = POINT})
C7_PointStep ==
    (pc = "number" /\ Peek = POINT)
        => IF C7_Points(start, pos) >= 1
           THEN /\ result' = Err("InvalidNumber",
                                 DecimalValue(Unsigned(SubSeq(input, start, pos))))
                /\ pc' = "done"
                /\ tokens' = tokens
                /\ stdout' = <<>>
           ELSE /\ result' = Running
                /\ pc' = "number"
                /\ pos' = pos + 1
C7_OtherStep ==
    (pc = "number" /\ Peek # POINT /\ result'.err = "InvalidNumber")
        => IsDigit(Peek) /\ C7_Points(start, pos) = 0
C7_Example ==
    (Done /\ input = In1p2p3)
        => /\ result = Err("InvalidNumber", 1 * Scale + (2 * Scale) \div 10)
           /\ pos = 3
           /\ tokens = <<>>
C7_SecondPointFails ==
    /\ [][C7_PointStep /\ C7_OtherStep]_vars
    /\ []C7_Example

\* 1.2.3 failed at its second point
C7_Witness ==
    /\ Done
    /\ input = In1p2p3
    /\ result.err = "InvalidNumber"
    /\ pos = 3

(* C10: when the stream ends inside a string at a plain position the scan  *)
(* succeeds and pushes a String token of what was accumulated; when it     *)
(* ends right after a backslash the scan fails with UnexpectedEndOfInput.  *)
C10_PlainEndStep ==
    (pc = "string" /\ NextItem = EOF)
        => /\ tokens' = Append(tokens, TokString(str))
           /\ result' = Running
           /\ pc' = "dispatch"
C10_EscapeEndStep ==
    (pc = "string" /\ NextItem = BACKSLASH /\ Item(pos + 2) = EOF)
        => /\ result' = Err("UnexpectedEndOfInput", 0)
           /\ tokens' = tokens
           /\ pc' = "done"
C10_Final ==
    (Done /\ input # <<>> /\ input[1] = QUOTE)
        => /\ C6_Plain(2, Len(input))
                 => /\ result = Ok
                    /\ tokens = <<TokString(SubSeq(input, 2, Len(input)))>>
                    /\ Len(stdout) = 1
           /\ (Len(input) >= 2 /\ C6_Plain(2, Len(input) - 1)
                  /\ input[Len(input)] = BACKSLASH)
                 => /\ result = Err("UnexpectedEndOfInput", 0)
                    /\ stdout = <<>>
C10_EndOfStreamInString ==
    /\ [][C10_PlainEndStep /\ C10_EscapeEndStep]_vars
    /\ []C10_Final

\* "ab and then the end of the stream: a String token of text ab
C10_Witness ==
    /\ Done
    /\ input = <<QUOTE, 97, 98>>
    /\ result = Ok
    /\ tokens = <<TokString(<<97, 98>>)>>

(* C8: for every input of the form [sign] digits [. digits] within the     *)
(* representable range consume_number gives exactly one Number token, of   *)
(* the decimal value of the digits; a leading + changes nothing and a      *)
(* leading - negates the value once (123 -> 123, +5 -> 5, -12.5 -> -12.5). *)
C8_AllDigits(s, a, b) == \A j \in a..b : s[j] \in 48..57
\* s is digits [. digits]
C8_IsDecimal(s) ==
    LET p == PointAt(s)
    IN  /\ p >= 2
        /\ C8_AllDigits(s, 1, p - 1)
        /\ p <= Len(s) => (p < Len(s) /\ C8_AllDigits(s, p + 1, Len(s)))
C8_InRange(s) == DecimalValue(s) <= F64Max * Scale
C8_Expected == TokNumber(input[1] = MINUS, DecimalValue(Unsigned(input)))
C8_DecimalValue ==
    (Done /\ C8_IsDecimal(Unsigned(input)) /\ C8_InRange(Unsigned(input)))
        => (result = Ok /\ tokens = <<C8_Expected>>)

\* the statement of C8 for the inputs whose integer part does not exceed a
\* tenth of the largest value: the part of C8 the guard of C9 leaves alone
C8_BelowGuard ==
    (Done /\ C8_IsDecimal(Unsigned(input))
          /\ DecimalInt(Unsigned(input), PointAt(Unsigned(input)) - 1) * 10 <= F64Max)
        => (result = Ok /\ tokens = <<C8_Expected>>)

(* C9: the overflow guard of consume_number fails with InvalidNumber       *)
(* exactly when the accumulator held before the next digit is added        *)
(* exceeds MAX / 10, and the error carries that accumulator; so an integer *)
(* run whose accumulator never exceeds MAX / 10 before a digit is added is *)
(* accepted, also when its final value lies between MAX / 10 and MAX.      *)
\* the lengths k of the prefixes of s after which a digit is still to be
\* added and whose value exceeds MAX / 10
C9_Over(s) == {k \in 1..(Len(s) - 1) : DecimalInt(s, k) * 10 > F64Max}
C9_GuardBeforeNextDigit ==
    (Done /\ input # <<>> /\ C8_AllDigits(input, 1, Len(input)))
        => IF C9_Over(input) = {}
           THEN /\ result = Ok
                /\ tokens = <<TokNumber(FALSE, DecimalValue(input))>>
           ELSE LET k == CHOOSE k \in C9_Over(input) :
                             \A m \in C9_Over(input) : k <= m
                IN  /\ result = Err("InvalidNumber", DecimalInt(input, k) * Scale)
                    /\ tokens = <<>>

\* the guard as the code has it: the scan fails as soon as the accumulator
\* exceeds MAX / 10 after a digit was added, a next digit or not
C9_Over2(s) == {k \in 1..Len(s) : DecimalInt(s, k) * 10 > F64Max}
C9_GuardAfterDigit ==
    (Done /\ input # <<>> /\ C8_AllDigits(input, 1, Len(input)))
        => IF C9_Over2(input) = {}
           THEN /\ result = Ok
                /\ tokens = <<TokNumber(FALSE, DecimalValue(input))>>
           ELSE LET k == CHOOSE k \in C9_Over2(input) :
                             \A m \in C9_Over2(input) : k <= m
                IN  /\ result = Err("InvalidNumber", DecimalInt(input, k) * Scale)
                    /\ tokens = <<>>

(* C11: for an input of ASCII whitespace and the bytes { } : , only,       *)
(* tokenize succeeds and the tokens are the image, in order, of the bytes  *)
(* that are not whitespace; whitespace gives no token, a whitespace-only   *)
(* input gives no token and {} gives ObjectStart, ObjectEnd.               *)
C11_Whitespace == {32, 9, 10, 13}
C11_Punct == {123, 125, 58, 44}
RECURSIVE C11_Image(_)
C11_Image(s) ==
    IF s = <<>> THEN <<>>
    ELSE IF Head(s) \in C11_Whitespace THEN C11_Image(Tail(s))
    ELSE <<CASE Head(s) = 123 -> TokObjectStart
             [] Head(s) = 125 -> TokObjectEnd
             [] Head(s) = 58 -> TokColon
             [] Head(s) = 44 -> TokComma>> \o C11_Image(Tail(s))
C11_PunctuationAndWhitespace ==
    (Done /\ \A j \in 1..Len(input) : input[j] \in C11_Whitespace \cup C11_Punct)
        => /\ result = Ok
           /\ tokens = C11_Image(input)
           /\ Len(stdout) = Len(tokens)
           /\ input = <<123, 125>> => tokens = <<TokObjectStart, TokObjectEnd>>
           /\ (\A j \in 1..Len(input) : input[j] \in C11_Whitespace)
                 => tokens = <<>>

\* a space, { and } gave ObjectStart, ObjectEnd
C11_Witness ==
    /\ Done
    /\ input = <<32, 123, 125>>
    /\ result = Ok
    /\ tokens = <<TokObjectStart, TokObjectEnd>>

(* C12: inside a string a backslash followed by a byte other than          *)
(* " \ b f n r t u makes consume_string fail with InvalidEscapeSequence of *)
(* that byte; tokenize returns that error and no String token is pushed    *)
(* for the literal.                                                        *)
C12_Known == {34, 92, 98, 102, 110, 114, 116, 117}
C12_Step ==
    (pc = "string" /\ NextItem = BACKSLASH
         /\ Item(pos + 2) \in (0..255) \ C12_Known)
        => /\ result' = Err("InvalidEscapeSequence", Item(pos + 2))
           /\ pc' = "done"
           /\ tokens' = tokens
           /\ stdout' = <<>>
C12_Final ==
    (Done /\ Len(input) >= 3 /\ input[1] = QUOTE /\ input[2] = BACKSLASH
          /\ input[3] \in (0..255) \ C12_Known)
        => /\ result = Err("InvalidEscapeSequence", input[3])
           /\ tokens = <<>>
C12_InvalidEscape ==
    /\ [][C12_Step]_vars
    /\ []C12_Final

\* "\a : the escaped byte a is named by the error
C12_Witness ==
    /\ Done
    /\ input = <<QUOTE, BACKSLASH, 97>>
    /\ result = Err("InvalidEscapeSequence", 97)
    /\ tokens = <<>>

(* C13: when a read of the stream fails and no lexical error arose from    *)
(* the bytes before it, tokenize returns IoError, never Ok and never a     *)
(* lexical error, whichever loop meets the failure (the dispatch loop,     *)
(* the string scanner, the literal matcher or the lookahead of the number  *)
(* scanner); the tokens gathered before the failure are not rendered.      *)
C13_HasFailure == \E j \in 1..Len(input) : input[j] = IOERR
C13_FirstFailure ==
    CHOOSE j \in 1..Len(input) :
        input[j] = IOERR /\ \A k \in 1..(j - 1) : input[k] # IOERR
C13_Final ==
    (Done /\ C13_HasFailure)
        => /\ result # Ok
           /\ stdout = <<>>
           /\ \/ result = Err("IoError", 0) /\ pos = C13_FirstFailure
              \/ result # Err("IoError", 0) /\ pos < C13_FirstFailure
\* every loop that takes the failed read returns IoError
C13_ReadStep ==
    (pc \in {"dispatch", "string", "literal"}
         /\ (NextItem = IOERR \/ (pc = "string" /\ NextItem = BACKSLASH
                                     /\ Item(pos + 2) = IOERR)))
        => result' = Err("IoError", 0) /\ pc' = "done"
\* the number scanner leaves a failed read it peeked to the dispatch loop
C13_PeekStep ==
    (pc = "number" /\ Peek = IOERR)
        => pc' = "dispatch" /\ pos' = pos /\ result' = Running
C13_ReadFailureIsIoError ==
    /\ []C13_Final
    /\ [][C13_ReadStep /\ C13_PeekStep]_vars

\* the lookahead of the number scanner met the failed read; the Number
\* token gathered before was not rendered
C13_Witness ==
    /\ Done
    /\ input = <<49, IOERR>>
    /\ result = Err("IoError", 0)
    /\ tokens = <<Num(FALSE, 1, 0)>>
    /\ stdout = <<>>

(* C14: inside a string a backslash followed by u gives neither an error   *)
(* value nor a token: the pass ends in the panic state, which is not Ok    *)
(* and not an error, and nothing is rendered.                              *)
C14_Step ==
    (pc = "string" /\ NextItem = BACKSLASH /\ Item(pos + 2) = 117)
        => /\ result'.kind = "panic"
           /\ result'.kind \notin {"Ok", "Err", "none"}
           /\ pc' = "done"
           /\ tokens' = tokens
           /\ stdout' = <<>>
C14_Final ==
    /\ (Done /\ Len(input) >= 3 /\ input[1] = QUOTE /\ input[2] = BACKSLASH
             /\ input[3] = 117)
           => (result = Panic /\ tokens = <<>> /\ stdout = <<>>)
    /\ result.kind = "panic"
           => (stdout = <<>> /\ pos >= 2 /\ input[pos] = 117
                  /\ input[pos - 1] = BACKSLASH)
C14_UnicodeEscapePanics ==
    /\ [][C14_Step]_vars
    /\ []C14_Final

\* "\u ended the pass in the panic state
C14_Witness ==
    /\ Done
    /\ input = <<QUOTE, BACKSLASH, 117>>
    /\ result = Panic

(* C15: round trip: for every token sequence made only of punctuation,    *)
(* boolean and integral number tokens, tokenizing the text that tokenize   *)
(* renders for that sequence gives an equivalent token sequence.           *)
C15_Rendered == Done /\ input \in RoundTripInputs
C15_RoundTrip ==
    C15_Rendered
        => \A ts \in RoundTripSeqs :
               input = RenderAll(ts) => (result = Ok /\ tokens = ts)

(* C15 as amended: the round trip holds for the empty sequence only.  For  *)
(* a sequence that is not empty the [ that opens the rendering is lexed as *)
(* an Invalid token, so the sequence is not reproduced; when its first     *)
(* token is ObjectStart or ObjectEnd the pass fails with InvalidCharacter  *)
(* of the byte after "Object" (the t of the name starts the matcher of     *)
(* true).                                                                  *)
C15_RenderingIsNotRelexable ==
    C15_Rendered
        => \A ts \in RoundTripSeqs :
               input = RenderAll(ts)
                   => IF ts = <<>>
                      THEN result = Ok /\ tokens = <<>>
                      ELSE /\ tokens # <<>>
                           /\ tokens[1] = TokInvalid
                           /\ ~(result = Ok /\ tokens = ts)
                           /\ ts[1].type = "ObjectStart"
                                 => result = Err("InvalidCharacter", 83)
                           /\ ts[1].type = "ObjectEnd"
                                 => result = Err("InvalidCharacter", 69)

\* the text printed for Boolean(true), "[Boolean: true], ", lexed again
C15_Witness ==
    /\ Done
    /\ input = RenderAll(<<TokBoolean(TRUE)>>)
    /\ result = Ok
    /\ tokens = <<TokInvalid, TokInvalid, TokInvalid, TokInvalid, TokInvalid,
                  TokInvalid, TokInvalid, TokInvalid, TokColon,
                  TokBoolean(TRUE), TokInvalid, TokComma>>

(* C16: the cursor: the read position never decreases, every input byte   *)
(* is taken from the stream at most once, a byte peeked by consume_number  *)
(* is taken by exactly one later step (of the number scanner or of the     *)
(* dispatch loop), and when tokenize returns Ok every input byte was       *)
(* taken exactly once.                                                     *)
\* a step takes the read results pos + 1 .. pos', each once
C16_Forward == pos' >= pos /\ pos' <= Len(input)
\* the dispatch loop takes the byte it finds: a byte left by a sub-scanner
\* is taken by the next step
C16_DispatchTakes == (pc = "dispatch" /\ NextItem \in 0..255) => pos' = pos + 1
\* the peeked byte is taken now by the number scanner, or left to the
\* dispatch loop
C16_PeekedTaken ==
    (pc = "number" /\ Peek \in 0..255)
        => \/ pos' = pos + 1 /\ pc' # "dispatch"
           \/ pos' = pos /\ pc' = "dispatch"
C16_AllTaken == result = Ok => pos = Len(input)
C16_Cursor ==
    /\ [][C16_Forward /\ C16_DispatchTakes /\ C16_PeekedTaken]_vars
    /\ []C16_AllTaken

(* C16 as amended: as C16, but a second decimal point of a number run is   *)
(* peeked and never taken: the scan fails on it with InvalidNumber.        *)
C16_PeekedTakenOrSecondPoint ==
    (pc = "number" /\ Peek \in 0..255)
        => \/ pos' = pos + 1 /\ pc' # "dispatch"
           \/ pos' = pos /\ pc' = "dispatch"
           \/ /\ Peek = POINT
              /\ C7_Points(start, pos) >= 1
              /\ pos' = pos
              /\ pc' = "done"
              /\ result'.err = "InvalidNumber"
C16_CursorButSecondPoint ==
    /\ [][C16_Forward /\ C16_DispatchTakes /\ C16_PeekedTakenOrSecondPoint]_vars
    /\ []C16_AllTaken

\* 1, : the comma was peeked by the number scanner and taken by the
\* dispatch loop
C16_Witness ==
    /\ Done
    /\ input = <<49, COMMA>>
    /\ result = Ok
    /\ pos = 2
    /\ tokens = <<Num(FALSE, 1, 0), TokComma>>

(* C17: the token list is append-only and ordered: every step leaves the  *)
(* list as it is or appends one token to it (so the list at a step is a    *)
(* prefix of the list at every later step), and the tokens are in the      *)
(* order in which the first bytes of their lexical units are in the input. *)
C17_AppendStep ==
    \/ tokens' = tokens
    \/ /\ Len(tokens') = Len(tokens) + 1
       /\ SubSeq(tokens', 1, Len(tokens)) = tokens
\* the kind of token that a lexical unit beginning with byte b gives
C17_Kind(b) ==
    CASE b = 123 -> "ObjectStart"
      [] b = 125 -> "ObjectEnd"
      [] b = 58 -> "Colon"
      [] b = 44 -> "Comma"
      [] b \in {102, 116} -> "Boolean"
      [] b \in (48..57) \cup {43, 45} -> "Number"
      [] b = 34 -> "String"
      [] OTHER -> "Invalid"
C17_Ordered ==
    /\ Len(origins) = Len(tokens)
    /\ \A i \in 1..Len(tokens) :
          /\ origins[i] \in 1..pos
          /\ tokens[i].type = C17_Kind(input[origins[i]])
          /\ \A j \in (i + 1)..Len(tokens) : origins[i] < origins[j]
C17_AppendOnlyOrdered ==
    /\ [][C17_AppendStep]_vars
    /\ []C17_Ordered

\* the nine tokens of {"a":1,"b":2} and the first bytes of their units
C17_Witness ==
    /\ Done
    /\ input = InObject
    /\ Len(tokens) = 9
    /\ origins = <<1, 2, 5, 6, 7, 8, 11, 12, 13>>

(* C18: for every finite input delivered without blocking a pass of        *)
(* tokenize ends (with the token sequence, the first error or the \u       *)
(* abort): every iteration of a loop takes at least one byte or leaves its *)
(* loop, so that the pass has at most as many taking steps as the input    *)
(* has bytes.                                                              *)
C18_Progress == pos' > pos \/ pc' # pc
\* a step that takes nothing ends the pass or hands over to the dispatch
\* loop, and a pass that has ended takes no step
C18_NoIdleLoop ==
    /\ pos' = pos => (pc' = "done" \/ (pc # "dispatch" /\ pc' = "dispatch"))
    /\ pc # "done"
C18_Terminates ==
    /\ <>Done
    /\ [][C18_Progress /\ C18_NoIdleLoop]_vars
    /\ [](pos <= Len(input))

\* the longest input, {"a":1,"b":2}, was lexed to its end
C18_Witness ==
    /\ Done
    /\ input = InObject
    /\ pos = Len(input)
    /\ result = Ok

(* C19: a sign (+ or -) at the dispatch loop that no digit follows (the    *)
(* next byte is the end of the stream or a byte other than a digit or a    *)
(* point) still gives one Number token of magnitude 0; a number run        *)
(* without any digit is never reported as InvalidNumber or as an Invalid   *)
(* token.                                                                  *)
C19_NoDigit(a, b) == \A j \in a..b : input[j] \notin 48..57
\* the sign alone: the input begins with a sign and a byte that ends the run
C19_SignAlone ==
    (Done /\ input # <<>> /\ input[1] \in {43, 45}
          /\ Item(2) \in ({EOF} \cup (0..255)) \ ((48..57) \cup {46}))
        => /\ tokens # <<>>
           /\ tokens[1] = TokNumber(input[1] = 45, 0)
\* a run without a digit is left by the push of a Number token of magnitude 0
C19_LeaveStep ==
    (pc = "number" /\ pc' # "number" /\ C19_NoDigit(start, pos))
        => /\ tokens' = Append(tokens, TokNumber(input[start] = 45, 0))
           /\ result' = Running
C19_SignWithoutDigit ==
    /\ []C19_SignAlone
    /\ [][C19_LeaveStep]_vars

(* C19 as amended: as C19, for a run without a digit and with at most one  *)
(* decimal point; a run without a digit and with two points (+..) fails    *)
(* with InvalidNumber(0) at the second point.                              *)
C19_LeaveStepOnePoint ==
    (pc = "number" /\ pc' # "number" /\ C19_NoDigit(start, pos))
        => IF Peek = POINT
           THEN /\ C7_Points(start, pos) = 1
                /\ result' = Err("InvalidNumber", 0)
                /\ tokens' = tokens
           ELSE /\ C7_Points(start, pos) <= 1
                /\ tokens' = Append(tokens, TokNumber(input[start] = 45, 0))
                /\ result' = Running
C19_SignWithoutDigitOnePoint ==
    /\ []C19_SignAlone
    /\ [][C19_LeaveStepOnePoint]_vars

\* a - alone gave one Number token of magnitude 0
C19_Witness ==
    /\ Done
    /\ input = <<45>>
    /\ result = Ok
    /\ tokens = <<TokNumber(TRUE, 0)>>

(***************************************************************************)
(* The tokenizer compiled into the executable (src/src/main.rs), as        *)
(* functions of the input stream.  It has no number scanner.  A scan       *)
(* returns its result, its value and the position it has read up to.       *)
(***************************************************************************)
\* a main.rs that decodes \n to a line feed
MainEscapeCharMut(escaped) ==
    CASE escaped = QUOTE -> QUOTE
      [] escaped = BACKSLASH -> BACKSLASH
      [] escaped = 98 -> 8
      [] escaped = 102 -> 12
      [] escaped = 110 -> LF
      [] escaped = 114 -> 114
      [] escaped = 116 -> 116

MainEscapeChar(escaped) ==
    CASE escaped = QUOTE -> QUOTE
      [] escaped = BACKSLASH -> BACKSLASH
      [] escaped = 98 -> 8
      [] escaped = 102 -> 12
      [] escaped = 110 -> 110
      [] escaped = 114 -> 114
      [] escaped = 116 -> 116

MainEscapeBytes == {QUOTE, BACKSLASH, 98, 102, 110, 114, 116}
MainTrue == <<116, 114, 117, 101>>
MainFalse == <<102, 97, 108, 115, 101>>
MainScan(r, v, p) == [res |-> r, val |-> v, pos |-> p]

RECURSIVE MainConsumeString(_, _)
MainConsumeString(p, s) ==
    LET byte == Item(p + 1)
        escaped == Item(p + 2)
    IN  CASE byte = EOF -> MainScan(Ok, s, p)
          [] byte = IOERR -> MainScan(Err("IoError", 0), s, p + 1)
          [] byte = QUOTE -> MainScan(Ok, s, p + 1)
          [] byte = BACKSLASH ->
              CASE escaped = EOF ->
                       MainScan(Err("UnexpectedEndOfInput", 0), s, p + 1)
                [] escaped = IOERR -> MainScan(Err("IoError", 0), s, p + 2)
                [] escaped = 117 -> MainScan(Panic, s, p + 2)
                [] escaped \in MainEscapeBytes ->
                       MainConsumeString(p + 2,
                           Append(Append(s, MainEscapeChar(escaped)), byte))
                [] OTHER ->
                       MainScan(Err("InvalidEscapeSequence", escaped), s, p + 2)
          [] OTHER -> MainConsumeString(p + 1, Append(s, byte))

\* i is the index in expected of the byte the loop is at
RECURSIVE MainConsumeLiteral(_, _, _)
MainConsumeLiteral(p, exp, i) ==
    LET byte == Item(p + 1)
    IN  IF i > Len(exp)
        THEN MainScan(Ok, exp[1] = 116, p)
        ELSE CASE byte = EOF ->
                      MainScan(Err("UnexpectedEndOfInput", 0), FALSE, p)
               [] byte = IOERR -> MainScan(Err("IoError", 0), FALSE, p + 1)
               [] byte = exp[i] -> MainConsumeLiteral(p + 1, exp, i + 1)
               [] OTHER -> MainScan(Err("InvalidCharacter", byte), FALSE, p + 1)

MainOutcome(r, toks) == [result |-> r, tokens |-> toks]

RECURSIVE MainTokenizeFrom(_, _)
MainTokenizeFrom(p, toks) ==
    LET byte == Item(p + 1)
        lit == MainConsumeLiteral(p + 1,
                   IF byte = 116 THEN MainTrue ELSE MainFalse, 2)
        string == MainConsumeString(p + 1, <<>>)
    IN  CASE byte = EOF -> MainOutcome(Ok, toks)
          [] byte = IOERR -> MainOutcome(Err("IoError", 0), toks)
          [] byte \in {SPACE, TAB, LF, CR} -> MainTokenizeFrom(p + 1, toks)
          [] byte = LBRACE ->
                 MainTokenizeFrom(p + 1, Append(toks, TokObjectStart))
          [] byte = RBRACE ->
                 MainTokenizeFrom(p + 1, Append(toks, TokObjectEnd))
          [] byte = COLON -> MainTokenizeFrom(p + 1, Append(toks, TokColon))
          [] byte = COMMA -> MainTokenizeFrom(p + 1, Append(toks, TokComma))
          [] byte \in {116, 102} ->
                 IF lit.res = Ok
                 THEN MainTokenizeFrom(lit.pos,
                          Append(toks, TokBoolean(lit.val)))
                 ELSE MainOutcome(lit.res, toks)
          [] byte = QUOTE ->
                 IF string.res = Ok
                 THEN MainTokenizeFrom(string.pos,
                          Append(toks, TokString(string.val)))
                 ELSE MainOutcome(string.res, toks)
          [] OTHER -> MainTokenizeFrom(p + 1, Append(toks, TokInvalid))

MainTokenize == MainTokenizeFrom(0, <<>>)

(* C20: on every input without an ASCII digit, + or - the tokenizer of     *)
(* main.rs and the tokenizer of lib.rs have the same outcome (the same     *)
(* tokens, or the same error with the same payload).  They differ only     *)
(* where lib.rs hands a digit or a sign at the dispatch loop to the        *)
(* number scanner: main.rs makes an Invalid token of it.                   *)
C20_NumberBytes == (48..57) \cup {43, 45}
C20_NoNumberByte == \A j \in 1..Len(input) : input[j] \notin C20_NumberBytes
C20_LibOutcome == [result |-> result, tokens |-> tokens]
\* lib.rs never entered the number scanner in this pass
C20_NoNumberScan ==
    /\ result.err # "InvalidNumber"
    /\ \A j \in 1..Len(tokens) : tokens[j].type # "Number"
C20_SameOutcome ==
    /\ (Done /\ C20_NoNumberByte) => MainTokenize = C20_LibOutcome
    /\ (Done /\ C20_NoNumberScan) => MainTokenize = C20_LibOutcome
    /\ (Done /\ input # <<>> /\ input[1] \in C20_NumberBytes)
           => /\ MainTokenize.tokens # <<>>
              /\ MainTokenize.tokens[1] = TokInvalid
              /\ MainTokenize # C20_LibOutcome

\* a string with an escape and a literal, lexed alike by both
C20_Witness ==
    /\ Done
    /\ C20_NoNumberByte
    /\ result = Ok
    /\ Len(tokens) = 2
    /\ tokens[1].type = "String"
    /\ \E k \in 1..Len(tokens[1].text) : tokens[1].text[k] = BACKSLASH
    /\ MainTokenize.tokens = tokens

====
